---- MODULE Spec2Model ----
(***************************************************************************)
(* State-machine model of yt-supercut: the SQLite store (db.py), the       *)
(* subtitle write unit (utils.py) and the index / remove-channel commands  *)
(* (main.py).                                                              *)
(*                                                                         *)
(* The four store variables hold the COMMITTED contents of the database    *)
(* file.  Every db.py function opens its own connection (get_db), so each  *)
(* commit in the source is one atomic step here and nothing spans two      *)
(* functions.  Commands other than index (remove-channel, search, the      *)
(* listings) are separate invocations of the CLI working on the same       *)
(* database file: they may run at any moment of an index run.              *)
(***************************************************************************)
EXTENDS Integers, Sequences, FiniteSets, TLC

(***************************************************************************)
(* Bounds and input domains                                                *)
(***************************************************************************)
MaxThreads == 2
MaxRuns == 2
MaxRemoves == 1
MaxCalls == 3
MaxUnits == 2
FracBits == 64

VideoIds == {"v1", "v2"}
Langs == {"es", "en"}
Uploaders == {"@a", "@b"}

\* The uploader the media source reports for a video (info["uploader_id"]).
UploaderOf(v) == IF v = "v2" THEN "@b" ELSE "@a"

\* A cue of a caption track: start and end in milliseconds, text as lines.
Cue(s, e, t) == [start |-> s, end |-> e, text |-> t]

TrackA ==
    << Cue(1800, 2300, <<"half">>),
       Cue(12200, 14600, <<"hello", "world">>),
       Cue(20000, 20400, <<"tiny">>),
       Cue(31000, 31500, <<"hello">>) >>

TrackB ==
    << Cue(2000, 4500, <<"hola">>),
       Cue(5000, 9100, <<"adios hello">>),
       Cue(40000, 40000, <<"blip">>) >>

Tracks == {TrackA, TrackB}

\* The caption track the media source holds for a video.
TrackOf(v) == IF v = "v2" THEN TrackB ELSE TrackA

\* What the info.json of a fetch can be: complete, not loadable (json.load
\* raises), lacking a key add_video_info reads, lacking a key
\* add_channel_info reads, with an upload_date that is not %Y%m%d.
InfoKinds == {"ok", "unparsable", "no_title", "no_channel_url", "bad_date"}

Free == "free"

\* Python's None for an optional argument.
None == "None"

\* The texts search is asked for: single words.
SearchTexts == {"hello", "nothing"}

\* The spacing_secs download_part can be given (5 by default).
SpacingSecs == {0, 4, 5}

\* The temporary directory of a task before / without a download.
NoDir == [vtt |-> "none", cues |-> <<>>, info |-> "none"]

\* The info.json a fetch can leave: the media source writes upload_date in
\* the format %Y%m%d when it writes one.
FetchKinds == InfoKinds \ {"bad_date"}

\* What yt.download can leave in the temporary directory of video v: no
\* caption file, or the caption file with an info.json of some kind.
Downloads(v) ==
    {[vtt |-> "absent", cues |-> <<>>, info |-> "ok"]}
    \cup {[vtt |-> "ok", cues |-> TrackOf(v), info |-> k] : k \in FetchKinds}

(***************************************************************************)
(* State                                                                   *)
(***************************************************************************)
VARIABLES
    channels,         \* table channels: records uploader_id, channel_name, channel_url
    videos,           \* table videos
    subtitles,        \* table subtitles (the Segments)
    video_languages,  \* table video_languages
    runState,         \* "idle", "running", "interrupted", "aborting", "done", "exited", "direct"
    video_ids,        \* the ids the media source listed for the current run
    lang,             \* --lang of the current index run
    new_ids,          \* the ids the planner kept for the current run
    pc,               \* position of each id's task
    tmpdir,           \* what each task's download left on disk
    result,           \* outcome of each task's future: "none", "ok", "error"
    lock,             \* main.lock: Free or the id of the task holding it
    unitPre,          \* history: the store when the current write unit began
    attempt,          \* history: the latest task of an index run for each (video, lang):
                      \* "none", "running", or how it ended
    absentReported,   \* history: the pairs a fetch reported as having no track
    runs,             \* history: the index commands started so far
    removes           \* history: the removals (remove-channel, delete_video) completed so far

store == <<channels, videos, subtitles, video_languages>>
command == <<runState, video_ids, lang, new_ids>>
tasks == <<pc, tmpdir, result, lock, unitPre>>
asked == <<attempt, absentReported>>

\* The (video, lang) pairs the media source was asked for.
attempted == {p \in VideoIds \X Langs : attempt[p] # "none"}
counts == <<runs, removes>>
vars == <<store, command, tasks, asked, counts>>

DB ==
    [channels |-> channels, videos |-> videos, subtitles |-> subtitles,
     video_languages |-> video_languages]

NoUnit == [channels |-> {}, videos |-> {}, subtitles |-> {}, video_languages |-> {}]

(***************************************************************************)
(* db.py                                                                   *)
(***************************************************************************)
\* A text the code parses or builds character by character: the sequence of
\* its characters.
DigitChars == <<"0", "1", "2", "3", "4", "5", "6", "7", "8", "9">>
IsDigit(c) == \E n \in 1..10 : DigitChars[n] = c
DigitValue(c) == (CHOOSE n \in 1..10 : DigitChars[n] = c) - 1

\* info["upload_date"] as the media source writes it for a video.
UploadDateOf(v) ==
    IF v = "v2" THEN <<"2", "0", "2", "4", "0", "2", "2", "9">>
    ELSE <<"2", "0", "2", "3", "0", "1", "0", "1">>

\* An upload_date that is not of the format %Y%m%d: 2023-01-01.
BadDate == <<"2", "0", "2", "3", "-", "0", "1", "-", "0", "1">>

\* The metadata dictionary of a video, complete.
Info(v) ==
    [id |-> v, title |-> <<"title", v>>, webpage_url |-> <<"https://x/", v>>,
     uploader_id |-> UploaderOf(v), uploader |-> <<"name", UploaderOf(v)>>,
     channel_url |-> <<"https://x/", UploaderOf(v)>>,
     upload_date |-> UploadDateOf(v)]

\* A dictionary without one of its keys.
Without(info, key) == [f \in DOMAIN info \ {key} |-> info[f]]

\* What json.load returns for the info.json of kind k of video v.
InfoJson(v, k) ==
    IF k = "no_title" THEN Without(Info(v), "title")
    ELSE IF k = "no_channel_url" THEN Without(Info(v), "channel_url")
    ELSE IF k = "bad_date" THEN [Info(v) EXCEPT !.upload_date = BadDate]
    ELSE Info(v)

\* datetime.strptime(data_string, "%Y%m%d").  The format is the regular
\* expression
\*     (\d\d\d\d)(1[0-2]|0[1-9]|[1-9])(3[01]|[12]\d|0[1-9]|[1-9]| [1-9])
\* matched at the start of the text, alternatives tried from left to right.
\* MonthMatches and DayMatches give the ways the month and the day can
\* match at position p, in the order they are tried, as <<length, value>>.
TwoDigits(t, p) ==
    IF p + 1 <= Len(t) /\ IsDigit(t[p]) /\ IsDigit(t[p + 1])
    THEN 10 * DigitValue(t[p]) + DigitValue(t[p + 1])
    ELSE -1
OneDigit(t, p) ==
    IF p <= Len(t) /\ IsDigit(t[p]) THEN DigitValue(t[p]) ELSE -1

MonthMatches(t, p) ==
    (IF TwoDigits(t, p) \in 1..12 THEN << <<2, TwoDigits(t, p)>> >> ELSE <<>>)
    \o (IF OneDigit(t, p) \in 1..9 THEN << <<1, OneDigit(t, p)>> >> ELSE <<>>)

DayMatches(t, p) ==
    (IF TwoDigits(t, p) \in 1..31 THEN << <<2, TwoDigits(t, p)>> >> ELSE <<>>)
    \o (IF OneDigit(t, p) \in 1..9 THEN << <<1, OneDigit(t, p)>> >> ELSE <<>>)
    \o (IF p + 1 <= Len(t) /\ t[p] = " " /\ OneDigit(t, p + 1) \in 1..9
        THEN << <<2, OneDigit(t, p + 1)>> >> ELSE <<>>)

DaysIn(year, month) ==
    IF month = 2
    THEN (IF year % 4 = 0 /\ (year % 100 # 0 \/ year % 400 = 0) THEN 29 ELSE 28)
    ELSE IF month \in {4, 6, 9, 11} THEN 30 ELSE 31

\* The datetime of a text, or ValueError: no match of the expression,
\* unconverted data after the match, year 0, or a day the month has not.
NoDate == [error |-> "ValueError", year |-> 0, month |-> 0, day |-> 0]
strptime(t) ==
    LET has_year == Len(t) >= 4 /\ \A i \in 1..4 : IsDigit(t[i])
        year == 1000 * DigitValue(t[1]) + 100 * DigitValue(t[2])
                   + 10 * DigitValue(t[3]) + DigitValue(t[4])
        months == MonthMatches(t, 5)
        \* the month alternatives after which a day matches, in order
        good == SelectSeq(months, LAMBDA m : DayMatches(t, 5 + m[1]) # <<>>)
        m == Head(good)
        d == Head(DayMatches(t, 5 + m[1]))
    IN  IF ~has_year \/ good = <<>> THEN NoDate
        ELSE IF 4 + m[1] + d[1] # Len(t) THEN NoDate
        ELSE IF year = 0 \/ d[2] > DaysIn(year, m[2]) THEN NoDate
        ELSE [error |-> None, year |-> year, month |-> m[2], day |-> d[2]]

\* The dates of the catalogue, parsed once.
dates == [t \in {UploadDateOf(v) : v \in VideoIds} \cup {BadDate} |-> strptime(t)]
Parsed(t) == IF t \in DOMAIN dates THEN dates[t] ELSE strptime(t)

\* datetime.isoformat() of a date at midnight, as sqlite_utils stores a
\* datetime in a text column: YYYY-MM-DDT00:00:00.
Pad2(n) == <<DigitChars[(n \div 10) + 1], DigitChars[(n % 10) + 1]>>
isoformat(dt) ==
    Pad2(dt.year \div 100) \o Pad2(dt.year % 100) \o <<"-">> \o Pad2(dt.month)
    \o <<"-">> \o Pad2(dt.day)
    \o <<"T", "0", "0", ":", "0", "0", ":", "0", "0">>

\* add_channel_info raises KeyError when info lacks a key it reads.
add_channel_info_raises(info) ==
    ~({"uploader_id", "uploader", "channel_url"} \subseteq DOMAIN info)

\* insert(..., replace=True) on channels (primary key uploader_id); nothing
\* is written when building the row raises.
add_channel_info(C, info) ==
    IF add_channel_info_raises(info) THEN C
    ELSE {c \in C : c.uploader_id # info.uploader_id}
         \cup {[uploader_id |-> info.uploader_id, channel_name |-> info.uploader,
                channel_url |-> info.channel_url]}

\* add_video_info raises KeyError when info lacks a key it reads and
\* ValueError when upload_date is not a date of the format %Y%m%d.
add_video_info_raises(info) ==
    \/ ~({"id", "title", "webpage_url", "uploader_id", "upload_date"}
            \subseteq DOMAIN info)
    \/ Parsed(info.upload_date).error # None

\* insert(..., replace=True) on videos (primary key video_id); upload_date
\* is stored as the isoformat of the parsed date.  Nothing is written when
\* building the row raises.
add_video_info(V, info) ==
    IF add_video_info_raises(info) THEN V
    ELSE {r \in V : r.video_id # info.id}
         \cup {[video_id |-> info.id, video_title |-> info.title,
                video_url |-> info.webpage_url, uploader_id |-> info.uploader_id,
                upload_date |-> isoformat(Parsed(info.upload_date))]}

\* The largest rowid of subtitles, 0 for the empty table.
MaxRowid(S) ==
    IF S = {} THEN 0
    ELSE CHOOSE m \in {s.subtitle_id : s \in S} :
            \A s \in S : s.subtitle_id <= m

\* insert_all(items) on subtitles: subtitle_id is an INTEGER PRIMARY KEY, so
\* each row gets the largest rowid plus one, in the order of items.
insert_all(S, items) ==
    S \cup {[subtitle_id |-> MaxRowid(S) + i,
             video_id |-> items[i].video_id, lang |-> items[i].lang,
             start_seconds |-> items[i].start_seconds,
             end_seconds |-> items[i].end_seconds,
             start_time |-> items[i].start_time, end_time |-> items[i].end_time,
             text |-> items[i].text] : i \in 1..Len(items)}

\* Variant: video_id and lang given in the wrong order.
add_video_language_Swapped(L, v, l, available) ==
    {r \in L : ~(r.video_id = l /\ r.lang = v)}
    \cup {[video_id |-> l, lang |-> v, available |-> available]}

\* insert(..., replace=True) on video_languages (primary key video_id, lang).
add_video_language(L, v, l, available) ==
    {r \in L : ~(r.video_id = v /\ r.lang = l)}
    \cup {[video_id |-> v, lang |-> l, available |-> available]}

\* Variant: the where clause of both deletes lacks the video_id condition.
clear_subtitles_AnyVideo(db, v, l) ==
    [db EXCEPT
        !.subtitles = {s \in @ : s.lang # l},
        !.video_languages = {r \in @ : r.lang # l}]

\* Variant: only the video_languages row is deleted, the segments stay.
clear_subtitles_KeepRows(db, v, l) ==
    [db EXCEPT
        !.video_languages = {r \in @ : ~(r.video_id = v /\ r.lang = l)}]

\* clear_subtitles: both delete_where and the commit, on the whole store.
clear_subtitles(db, v, l) ==
    [db EXCEPT
        !.subtitles = {s \in @ : ~(s.video_id = v /\ s.lang = l)},
        !.video_languages = {r \in @ : ~(r.video_id = v /\ r.lang = l)}]

\* Variant: only rows with available = 0 exclude a candidate.
filter_existing_OnlyAbsent(L, ids, l) ==
    {v \in ids :
        v \notin {r.video_id : r \in {x \in L : x.available = FALSE}}}

\* Variant: only rows of available tracks exclude a candidate.
filter_existing_OnlyAvailable(L, ids, l) ==
    {v \in ids :
        v \notin {r.video_id : r \in {x \in L : x.lang = l /\ x.available = TRUE}}}

\* Variant: the subquery lacks "or available = 0".
filter_existing_SameLang(L, ids, l) ==
    {v \in ids : v \notin {r.video_id : r \in {x \in L : x.lang = l}}}

\* filter_existing_video_ids: the rows of tmp whose video_id is not in
\* (select video_id from video_languages where lang = :lang or available = 0).
filter_existing_video_ids(L, ids, l) ==
    {v \in ids :
        v \notin {r.video_id : r \in {x \in L : x.lang = l \/ x.available = FALSE}}}

\* delete_channel: the four statements in the order of the source, on one
\* connection.  The two subqueries read videos AFTER the first statement has
\* removed the uploader's rows.  channels.delete raises NotFoundError for a
\* missing row and the open transaction is rolled back.
delete_channel(db, u) ==
    LET v1 == {r \in db.videos : r.uploader_id # u}
        gone1 == {r.video_id : r \in {x \in v1 : x.uploader_id = u}}
        s1 == {s \in db.subtitles : s.video_id \notin gone1}
        l1 == {r \in db.video_languages : r.video_id \notin gone1}
    IN  IF \E c \in db.channels : c.uploader_id = u
        THEN [channels |-> {c \in db.channels : c.uploader_id # u},
              videos |-> v1, subtitles |-> s1, video_languages |-> l1]
        ELSE db

\* delete_video: the two delete_where and videos.delete on one connection,
\* committed by videos.delete.  videos.delete raises NotFoundError for a
\* missing row and the open transaction is rolled back.
delete_video(db, v) ==
    IF \E r \in db.videos : r.video_id = v
    THEN [channels |-> db.channels,
          videos |-> {r \in db.videos : r.video_id # v},
          subtitles |-> {x \in db.subtitles : x.video_id # v},
          video_languages |-> {r \in db.video_languages : r.video_id # v}]
    ELSE db

\* The terms the full-text index subtitles_fts holds for a segment text.
Tokens(text) ==
    IF text = "adios hello" THEN {"adios", "hello"} ELSE {text}

\* An integer as SQLite's || renders it: decimal digits, "-" for a negative.
RECURSIVE Digits(_)
Digits(n) ==
    LET d == <<"0", "1", "2", "3", "4", "5", "6", "7", "8", "9">>[(n % 10) + 1]
    IN  IF n < 10 THEN <<d>> ELSE Digits(n \div 10) \o <<d>>
Decimal(n) == IF n < 0 THEN <<"-">> \o Digits(0 - n) ELSE Digits(n)

\* The decimals of the seconds a segment of the catalogue can start or end
\* at, padded or not, rendered once.
decimals == [n \in -5..50 |-> Decimal(n)]
Rendered(n) == IF n \in DOMAIN decimals THEN decimals[n] ELSE Decimal(n)

\* Variant: the link is padded by the default spacing of download_part.
link_Spacing(video_url, start_seconds, end_seconds) ==
    video_url \o <<"&start=">> \o Rendered(start_seconds - 5)
              \o <<"&end=">> \o Rendered(end_seconds + 5)

\* The link column of the view:
\* v.video_url || "&start=" || (s.start_seconds-4) || "&end=" || (s.end_seconds+2)
\* A text is the sequence of its pieces.
link(video_url, start_seconds, end_seconds) ==
    video_url \o <<"&start=">> \o Rendered(start_seconds - 4)
              \o <<"&end=">> \o Rendered(end_seconds + 2)

\* Variant: left joins, a segment without its video or channel is a row too.
subtitles_with_videos_LeftJoin(db) ==
    {[subtitle_id |-> s.subtitle_id, video_id |-> s.video_id,
      start_seconds |-> s.start_seconds, end_seconds |-> s.end_seconds,
      lang |-> s.lang, text |-> s.text] : s \in db.subtitles}

\* The view subtitles_with_videos: subtitles joined with videos and channels.
subtitles_with_videos(db) ==
    {[subtitle_id |-> t[1].subtitle_id, video_id |-> t[2].video_id,
      uploader_id |-> t[2].uploader_id, video_title |-> t[2].video_title,
      upload_date |-> t[2].upload_date, channel_name |-> t[3].channel_name,
      start_seconds |-> t[1].start_seconds, end_seconds |-> t[1].end_seconds,
      lang |-> t[1].lang, text |-> t[1].text,
      link |-> link(t[2].video_url, t[1].start_seconds, t[1].end_seconds)] :
        t \in {x \in db.subtitles \X db.videos \X db.channels :
                  /\ x[1].video_id = x[2].video_id
                  /\ x[2].uploader_id = x[3].uploader_id}}

\* The order of two video ids as texts (BINARY collation).
VideoRank == [v \in VideoIds |-> IF v = "v1" THEN 1 ELSE 2]

\* Variant: order_by="start_seconds ASC".
RowBefore_StartOnly(r, x) ==
    \/ r.start_seconds < x.start_seconds
    \/ /\ r.start_seconds = x.start_seconds
       /\ r.subtitle_id <= x.subtitle_id

\* order_by="video_id, start_seconds ASC"; rows equal in both come in the
\* order of their rowid.
RowBefore(r, x) ==
    \/ VideoRank[r.video_id] < VideoRank[x.video_id]
    \/ /\ r.video_id = x.video_id
       /\ \/ r.start_seconds < x.start_seconds
          \/ /\ r.start_seconds = x.start_seconds
             /\ r.subtitle_id <= x.subtitle_id

RECURSIVE order_by(_)
order_by(rows) ==
    IF rows = {} THEN <<>>
    ELSE LET first == CHOOSE r \in rows : \A x \in rows : RowBefore(r, x)
         IN  <<first>> \o order_by(rows \ {first})

\* rows_where(where, where_args, order_by) on the rows of the view: the rows
\* the where clauses of search keep, in the order of order_by.
rows_where(view, db, text, uploader_id, l) ==
    LET fts == {s.subtitle_id : s \in {x \in db.subtitles : text \in Tokens(x.text)}}
        of_uploader ==
            {v.video_id : v \in {x \in db.videos : x.uploader_id = uploader_id}}
    IN  order_by({r \in view :
                    /\ r.subtitle_id \in fts
                    /\ l # None => r.lang = l
                    /\ uploader_id # None => r.video_id \in of_uploader})

\* search(text, uploader_id, lang): rows_where on the view
\* subtitles_with_videos.
search(db, text, uploader_id, l) ==
    rows_where(subtitles_with_videos(db), db, text, uploader_id, l)

(***************************************************************************)
(* utils.py                                                                *)
(***************************************************************************)
\* download_part: the range asked of the media source for a search row.
download_ranges(info, spacing_secs) ==
    <<info.start_seconds - spacing_secs, info.end_seconds + spacing_secs>>

\* caption.start_in_seconds and caption.end_in_seconds are Python floats:
\* webvtt parses a timestamp into integers and returns
\*     hours * 3600 + minutes * 60 + seconds + milliseconds / 1000
\* that is, the double nearest to (whole seconds + the double nearest to
\* milliseconds / 1000).  A double is modelled exactly, as its integer part
\* and the first FracBits bits of its binary fraction; every double met here
\* fits (it is below 2^17 and a multiple of 2^-62).
Mantissa == 53

\* 2^n modulo 1000.
RECURSIVE Pow2Mod(_)
Pow2Mod(n) ==
    IF n = 0 THEN 1
    ELSE LET half == Pow2Mod(n \div 2)
         IN  (half * half * (IF n % 2 = 1 THEN 2 ELSE 1)) % 1000

\* What is left of r / 1000 after n bits of its binary fraction, times
\* 1000 * 2^n (long division of r by 1000 in base 2).
Remainder(r, n) == (r * Pow2Mod(n)) % 1000

\* The first n bits of the binary fraction of r / 1000, 0 <= r < 1000.
Expand(r, n) ==
    [i \in 1..n |-> IF 2 * Remainder(r, i - 1) >= 1000 THEN 1 ELSE 0]

\* floor(log2(i)) for i >= 1.
RECURSIVE Log2(_)
Log2(i) == IF i <= 1 THEN 0 ELSE 1 + Log2(i \div 2)

\* x + 2^-k, for 0 <= k <= FracBits.
IncAt(x, k) ==
    LET zeros == {i \in 1..k : x.frac[i] = 0}
        stop == IF zeros = {} THEN 0
                ELSE CHOOSE i \in zeros : \A j \in zeros : j <= i
    IN  [int |-> IF stop = 0 THEN x.int + 1 ELSE x.int,
         frac |-> [i \in 1..FracBits |->
                     IF i = stop THEN 1
                     ELSE IF i > stop /\ i <= k THEN 0
                     ELSE x.frac[i]]]

\* x < y
FloatLess(x, y) ==
    \/ x.int < y.int
    \/ /\ x.int = y.int
       /\ \E i \in 1..FracBits :
             /\ x.frac[i] < y.frac[i]
             /\ \A j \in 1..(i - 1) : x.frac[j] = y.frac[j]

\* The double nearest to x (+ something below the last bit when sticky),
\* ties to even: x is cut after Mantissa significant bits.
RoundToDouble(x, sticky) ==
    LET ones == {i \in 1..FracBits : x.frac[i] = 1}
        first == CHOOSE i \in ones : \A j \in ones : i <= j
        cut == IF x.int > 0 THEN Mantissa - 1 - Log2(x.int)
               ELSE first + Mantissa - 1
        kept == [int |-> x.int,
                 frac |-> [i \in 1..FracBits |->
                             IF i <= cut THEN x.frac[i] ELSE 0]]
        guard == cut + 1 <= FracBits /\ x.frac[cut + 1] = 1
        rest == sticky \/ \E i \in ones : i > cut + 1
        odd == x.frac[cut] = 1
    IN  IF x.int = 0 /\ ones = {} THEN x
        ELSE IF cut >= FracBits THEN x
        ELSE IF guard /\ (rest \/ odd) THEN IncAt(kept, cut)
        ELSE kept

\* hours * 3600 + minutes * 60 + seconds + milliseconds / 1000 for the
\* timestamp that is ms milliseconds.
InSeconds(ms) ==
    LET quotient == RoundToDouble(
                        [int |-> 0, frac |-> Expand(ms % 1000, FracBits)],
                        Remainder(ms % 1000, FracBits) # 0)
    IN  RoundToDouble([int |-> ms \div 1000, frac |-> quotient.frac], FALSE)

\* end_in_seconds - start_in_seconds < 0.5 for doubles e and s: the
\* difference, rounded to a double, is below 0.5 iff the exact difference is
\* below the midpoint 0.5 - 2^-55 of 0.5 and the double before it.
DifferenceBelowHalf(e, s) == FloatLess(IncAt(e, Mantissa + 2), IncAt(s, 1))

\* The timestamps of the catalogue, converted once.
CueTimes == UNION {{t[i].start : i \in 1..Len(t)} \cup {t[i].end : i \in 1..Len(t)} : t \in Tracks}
start_in_seconds == [ms \in CueTimes |-> InSeconds(ms)]

\* The cues of the catalogue for which
\* caption.end_in_seconds - caption.start_in_seconds < 0.5, decided once.
ShortCues ==
    {c \in UNION {{t[i] : i \in 1..Len(t)} : t \in Tracks} :
        DifferenceBelowHalf(start_in_seconds[c.end], start_in_seconds[c.start])}

\* Variant: no caption is skipped.
TooShort_Never(c) == FALSE

\* caption.end_in_seconds - caption.start_in_seconds < 0.5
TooShort(c) == c \in ShortCues

\* math.floor / math.ceil of the double of a timestamp.
floor == [ms \in CueTimes |-> start_in_seconds[ms].int]
ceil ==
    [ms \in CueTimes |->
        IF \E i \in 1..FracBits : start_in_seconds[ms].frac[i] = 1
        THEN start_in_seconds[ms].int + 1
        ELSE start_in_seconds[ms].int]
FloorSeconds(ms) == floor[ms]
CeilSeconds(ms) == ceil[ms]

\* The loop of process_subtitles over webvtt.read: the rows to insert.
Normalize(v, l, cues) ==
    LET kept == SelectSeq(cues, LAMBDA c : ~TooShort(c))
    IN  [i \in 1..Len(kept) |->
            [video_id |-> v, lang |-> l,
             start_seconds |-> FloorSeconds(kept[i].start),
             end_seconds |-> CeilSeconds(kept[i].end),
             start_time |-> kept[i].start, end_time |-> kept[i].end,
             text |-> Head(kept[i].text)]]

(***************************************************************************)
(* Initial state: the empty database db.init() creates, no command running *)
(***************************************************************************)
Init ==
    /\ channels = {}
    /\ videos = {}
    /\ subtitles = {}
    /\ video_languages = {}
    /\ runState = "idle"
    /\ video_ids = {}
    /\ lang = "es"
    /\ new_ids = {}
    /\ pc = [v \in VideoIds |-> "idle"]
    /\ tmpdir = [v \in VideoIds |-> NoDir]
    /\ result = [v \in VideoIds |-> "none"]
    /\ lock = Free
    /\ unitPre = NoUnit
    /\ attempt = [p \in VideoIds \X Langs |-> "none"]
    /\ absentReported = {}
    /\ runs = 0
    /\ removes = 0

\* A task occupies a worker thread of the pool: from the call of the media
\* source until its future is set.
Running(v) ==
    pc[v] \in {"download", "wait_lock", "process", "clear", "insert_subtitles",
               "insert_language", "add_video_info", "add_channel_info",
               "returning", "raising"}

\* A task is between the first and the last statement of its write unit.
InUnit(v) ==
    pc[v] \in {"clear", "insert_subtitles", "insert_language",
               "add_video_info", "add_channel_info"}

\* A task is inside its call of process_subtitles.
InProcess(v) == pc[v] = "process" \/ InUnit(v)

\* How a task of download_and_process_subtitles ends, by the statement it
\* is at: it raises before the first store call (in yt.download or in the
\* reading of the downloaded files), or it gets to the store calls: it
\* returns, or it raises in a store call of the write unit.
Ending(v, r) ==
    IF r = "error" /\ ~InUnit(v) THEN "raised_before_store"
    ELSE "reached_store"

\* Variant: the lock is acquired and released by hand, and a task that
\* raises keeps it.
Leave_KeepsLock(v, r) ==
    /\ pc' = [pc EXCEPT ![v] = IF r = "ok" THEN "returning" ELSE "raising"]
    /\ lock' = IF r = "ok" THEN Free ELSE lock
    /\ unitPre' = NoUnit
    /\ attempt' = [attempt EXCEPT ![<<v, lang>>] = Ending(v, r)]
    /\ UNCHANGED result

\* process_subtitles returns or raises inside a task and the with-statement
\* releases the lock.  The thread of the task has still to leave the
\* temporary directory and to set the future: until then the task is
\* running, with the lock free for another task.  The record of the store
\* at the beginning of the unit ends here.
Leave(v, r) ==
    /\ pc' = [pc EXCEPT ![v] = IF r = "ok" THEN "returning" ELSE "raising"]
    /\ lock' = Free
    /\ unitPre' = NoUnit
    /\ attempt' = [attempt EXCEPT ![<<v, lang>>] = Ending(v, r)]
    /\ UNCHANGED result

\* A call ends with nothing of the program running before its caller has
\* the outcome: yt.download raises in a task, which holds no lock, and the
\* future is set; or process_subtitles, called on its own, returns or
\* raises.  The record of the store at the beginning of the unit ends with
\* the call of process_subtitles it belongs to.
Finish(v, r) ==
    /\ pc' = [pc EXCEPT ![v] = "finished"]
    /\ result' = [result EXCEPT ![v] = r]
    /\ unitPre' = IF InProcess(v) THEN NoUnit ELSE unitPre
    /\ attempt' = IF runState = "direct" THEN attempt
                  ELSE [attempt EXCEPT ![<<v, lang>>] = Ending(v, r)]
    /\ UNCHANGED lock

\* The end of process_subtitles: inside a task of an index run it is the
\* end of the with-statement, in a call on its own the end of the call.
EndUnit(v, r) ==
    IF runState = "direct" THEN Finish(v, r) ELSE Leave(v, r)

(***************************************************************************)
(* main.index                                                              *)
(***************************************************************************)
\* The command up to the submission of the tasks: ids is the list the media
\* source returns for the url, new_ids what the planner keeps.  The
\* pool has MaxThreads worker threads.
Index(ids, l) ==
    /\ runState \in {"idle", "done", "exited"}
    /\ runs < MaxRuns
    /\ runs' = runs + 1
    /\ runState' = "running"
    /\ video_ids' = ids
    /\ lang' = l
    /\ new_ids' = filter_existing_video_ids(video_languages, ids, l)
    /\ pc' = [v \in VideoIds |-> IF v \in new_ids' THEN "pending" ELSE "idle"]
    /\ tmpdir' = [v \in VideoIds |-> NoDir]
    /\ result' = [v \in VideoIds |-> "none"]
    /\ UNCHANGED <<store, lock, unitPre, asked, removes>>

\* A free worker thread of the executor takes a submitted task and calls the
\* media source.
StartTask(v) ==
    /\ pc[v] = "pending"
    /\ Cardinality({w \in VideoIds : Running(w)}) < MaxThreads
    /\ pc' = [pc EXCEPT ![v] = "download"]
    /\ attempt' = [attempt EXCEPT ![<<v, lang>>] = "running"]
    /\ UNCHANGED <<store, command, tmpdir, result, lock, unitPre,
                   absentReported, counts>>

\* yt.download returns, leaving d in the temporary directory.
Download(v, d) ==
    /\ pc[v] = "download"
    /\ tmpdir' = [tmpdir EXCEPT ![v] = d]
    /\ pc' = [pc EXCEPT ![v] = "wait_lock"]
    /\ absentReported' =
          IF d.vtt = "absent" THEN absentReported \cup {<<v, lang>>}
          ELSE absentReported
    /\ UNCHANGED <<store, command, result, lock, unitPre, attempt, counts>>

\* yt.download raises: the task ends before the lock is asked for.
DownloadFails(v) ==
    /\ pc[v] = "download"
    /\ Finish(v, "error")
    /\ UNCHANGED <<store, command, tmpdir, absentReported, counts>>

\* The thread of a task that has left the with-statement leaves the
\* temporary directory and returns or raises: the future is set.
Return(v) ==
    /\ pc[v] \in {"returning", "raising"}
    /\ pc' = [pc EXCEPT ![v] = "finished"]
    /\ result' = [result EXCEPT ![v] = IF pc[v] = "returning" THEN "ok" ELSE "error"]
    /\ UNCHANGED <<store, command, tmpdir, lock, unitPre, asked, counts>>

\* with lock: the task enters process_subtitles.
Acquire(v) ==
    /\ pc[v] = "wait_lock"
    /\ lock = Free
    /\ lock' = v
    /\ pc' = [pc EXCEPT ![v] = "process"]
    /\ unitPre' = DB
    /\ UNCHANGED <<store, command, tmpdir, result, asked, counts>>

(***************************************************************************)
(* utils.process_subtitles, one step per commit                            *)
(***************************************************************************)
\* Lines 99-124: no caption file records the language as unavailable and
\* returns; otherwise the info.json and the captions are read, which raises
\* on an unloadable info.json.
ProcessStart(v) ==
    /\ pc[v] = "process"
    /\ IF tmpdir[v].vtt = "absent"
       THEN /\ video_languages' =
                  add_video_language(video_languages, v, lang, FALSE)
            /\ EndUnit(v, "ok")
       ELSE IF tmpdir[v].info = "unparsable"
       THEN /\ EndUnit(v, "error")
            /\ UNCHANGED video_languages
       ELSE /\ pc' = [pc EXCEPT ![v] = "clear"]
            /\ UNCHANGED <<video_languages, result, lock, unitPre, attempt>>
    /\ UNCHANGED <<channels, videos, subtitles, command, tmpdir,
                   absentReported, counts>>

\* db.clear_subtitles(video_id, lang)
ClearSubtitles(v) ==
    /\ pc[v] = "clear"
    /\ subtitles' = clear_subtitles(DB, v, lang).subtitles
    /\ video_languages' = clear_subtitles(DB, v, lang).video_languages
    /\ pc' = [pc EXCEPT ![v] = "insert_subtitles"]
    /\ UNCHANGED <<channels, videos, command, tmpdir, result, lock, unitPre,
                   asked, counts>>

\* db.add_subtitles, first statement: insert_all(items) and its commit.
InsertSubtitles(v) ==
    /\ pc[v] = "insert_subtitles"
    /\ subtitles' = insert_all(subtitles, Normalize(v, lang, tmpdir[v].cues))
    /\ pc' = [pc EXCEPT ![v] = "insert_language"]
    /\ UNCHANGED <<channels, videos, video_languages, command, tmpdir, result,
                   lock, unitPre, asked, counts>>

\* db.add_subtitles, second statement: the video_languages row.
InsertLanguage(v) ==
    /\ pc[v] = "insert_language"
    /\ video_languages' = add_video_language(video_languages, v, lang, TRUE)
    /\ pc' = [pc EXCEPT ![v] = "add_video_info"]
    /\ UNCHANGED <<channels, videos, subtitles, command, tmpdir, result, lock,
                   unitPre, asked, counts>>

\* db.add_video_info(info): raises KeyError on a missing key and ValueError
\* on an upload_date that is no date, before anything is written.
AddVideoInfo(v) ==
    /\ pc[v] = "add_video_info"
    /\ videos' = add_video_info(videos, InfoJson(v, tmpdir[v].info))
    /\ IF add_video_info_raises(InfoJson(v, tmpdir[v].info))
       THEN EndUnit(v, "error")
       ELSE /\ pc' = [pc EXCEPT ![v] = "add_channel_info"]
            /\ UNCHANGED <<result, lock, unitPre, attempt>>
    /\ UNCHANGED <<channels, subtitles, video_languages, command, tmpdir,
                   absentReported, counts>>

\* db.add_channel_info(info): raises KeyError on a missing key; otherwise the
\* unit is complete and the lock is released.
AddChannelInfo(v) ==
    /\ pc[v] = "add_channel_info"
    /\ channels' = add_channel_info(channels, InfoJson(v, tmpdir[v].info))
    /\ IF add_channel_info_raises(InfoJson(v, tmpdir[v].info))
       THEN EndUnit(v, "error")
       ELSE EndUnit(v, "ok")
    /\ UNCHANGED <<videos, subtitles, video_languages, command, tmpdir,
                   absentReported, counts>>

(***************************************************************************)
(* main.index, the as_completed loop                                       *)
(***************************************************************************)
\* Variant: the exception of future.result() is not caught and ends the
\* command.
Collect_Propagates(v) ==
    /\ runState = "running"
    /\ pc[v] = "finished"
    /\ pc' = [pc EXCEPT ![v] = "collected"]
    /\ runState' = IF result[v] = "error" THEN "done" ELSE runState
    /\ UNCHANGED <<store, video_ids, lang, new_ids, tmpdir, result, lock,
                   unitPre, asked, counts>>

\* One iteration: future.result() returns, or raises and the error is echoed.
Collect(v) ==
    /\ runState = "running"
    /\ pc[v] = "finished"
    /\ pc' = [pc EXCEPT ![v] = "collected"]
    /\ UNCHANGED <<store, command, tmpdir, result, lock, unitPre, asked, counts>>

\* Every future has been yielded: the executor shuts down, the command ends.
FinishIndex ==
    /\ runState = "running"
    /\ \A v \in new_ids : pc[v] = "collected"
    /\ runState' = "done"
    /\ UNCHANGED <<store, video_ids, lang, new_ids, tasks, asked, counts>>

\* KeyboardInterrupt is raised in the loop and caught: the main thread
\* leaves the loop and echoes "Aborting...".  The executor has not been told
\* yet, so its worker threads go on and still take queued tasks.
Interrupt ==
    /\ runState = "running"
    /\ runState' = "interrupted"
    /\ UNCHANGED <<store, video_ids, lang, new_ids, tasks, asked, counts>>

\* executor.shutdown(cancel_futures=True): the tasks no thread has taken are
\* cancelled; the call then waits for the others.
Shutdown ==
    /\ runState = "interrupted"
    /\ runState' = "aborting"
    /\ pc' = [v \in VideoIds |-> IF pc[v] = "pending" THEN "cancelled" ELSE pc[v]]
    /\ UNCHANGED <<store, video_ids, lang, new_ids, tmpdir, result, lock, unitPre, asked,
                   counts>>

\* The shutdown has waited for the running tasks: typer.Exit(1).
ExitAborted ==
    /\ runState = "aborting"
    /\ \A v \in VideoIds : ~Running(v)
    /\ runState' = "exited"
    /\ UNCHANGED <<store, video_ids, lang, new_ids, tasks, asked, counts>>

(***************************************************************************)
(* main.remove_channel, run as its own command on the same database        *)
(***************************************************************************)
\* db.delete_channel(uploader_id) completes: one transaction of one
\* connection, which SQLite applies as a whole at the commit in
\* channels.delete.  The command takes no lock.  (Without a channels row of
\* u the call raises NotFoundError and leaves the store as it is: a
\* stuttering step.)
RemoveChannel(u) ==
    /\ removes < MaxRemoves
    /\ \E c \in channels : c.uploader_id = u
    /\ removes' = removes + 1
    /\ channels' = delete_channel(DB, u).channels
    /\ videos' = delete_channel(DB, u).videos
    /\ subtitles' = delete_channel(DB, u).subtitles
    /\ video_languages' = delete_channel(DB, u).video_languages
    /\ UNCHANGED <<command, tasks, asked, runs>>

(***************************************************************************)
(* utils.process_subtitles called on its own                               *)
(***************************************************************************)
\* The folders process_subtitles can be given directly: any track of the
\* catalogue, or none, with any info.json.
Folders ==
    {[vtt |-> "absent", cues |-> <<>>, info |-> "ok"]}
    \cup {[vtt |-> "ok", cues |-> t, info |-> k] : t \in Tracks, k \in InfoKinds}

\* process_subtitles(video_id, lang, folder) as a caller outside the index
\* command invokes it: no planner, no lock; one call at a time.
CallProcessSubtitles(v, l, d) ==
    /\ runState \in {"idle", "direct"}
    /\ \A w \in VideoIds : ~Running(w)
    /\ runs < MaxCalls
    /\ runs' = runs + 1
    /\ runState' = "direct"
    /\ video_ids' = {v}
    /\ lang' = l
    /\ new_ids' = {v}
    /\ pc' = [w \in VideoIds |-> IF w = v THEN "process" ELSE "idle"]
    /\ tmpdir' = [w \in VideoIds |-> IF w = v THEN d ELSE NoDir]
    /\ result' = [w \in VideoIds |-> "none"]
    /\ unitPre' = DB
    /\ UNCHANGED <<store, lock, asked, removes>>

Next ==
    \/ \E ids \in SUBSET VideoIds, l \in Langs : Index(ids, l)
    \/ \E v \in VideoIds : StartTask(v)
    \/ \E v \in VideoIds : \E d \in Downloads(v) : Download(v, d)
    \/ \E v \in VideoIds : DownloadFails(v)
    \/ \E v \in VideoIds : Acquire(v)
    \/ \E v \in VideoIds : ProcessStart(v)
    \/ \E v \in VideoIds : ClearSubtitles(v)
    \/ \E v \in VideoIds : InsertSubtitles(v)
    \/ \E v \in VideoIds : InsertLanguage(v)
    \/ \E v \in VideoIds : AddVideoInfo(v)
    \/ \E v \in VideoIds : AddChannelInfo(v)
    \/ \E v \in VideoIds : Return(v)
    \/ \E v \in VideoIds : Collect(v)
    \/ FinishIndex
    \/ Interrupt
    \/ Shutdown
    \/ ExitAborted
    \/ \E u \in Uploaders : RemoveChannel(u)

Spec == Init /\ [][Next]_vars

(***************************************************************************)
(* Index runs that no interrupt aborts, with the scheduling of the code:   *)
(* a worker thread that can take a step takes it (the media source call    *)
(* returns or raises, a free lock is acquired), and the main thread        *)
(* collects finished futures.                                              *)
(***************************************************************************)
TaskStep(v) ==
    \/ StartTask(v)
    \/ \E d \in Downloads(v) : Download(v, d)
    \/ DownloadFails(v)
    \/ Acquire(v)
    \/ ProcessStart(v)
    \/ ClearSubtitles(v)
    \/ InsertSubtitles(v)
    \/ InsertLanguage(v)
    \/ AddVideoInfo(v)
    \/ AddChannelInfo(v)
    \/ Return(v)

MainStep == (\E v \in VideoIds : Collect(v)) \/ FinishIndex

NextLive ==
    \/ \E ids \in SUBSET VideoIds, l \in Langs : Index(ids, l)
    \/ \E v \in VideoIds : TaskStep(v)
    \/ MainStep

SpecLive ==
    /\ Init
    /\ [][NextLive]_vars
    /\ \A v \in VideoIds : WF_vars(TaskStep(v))
    /\ WF_vars(MainStep)

\* The write unit run repeatedly on arbitrary pairs and folders.
NextReindex ==
    \/ \E v \in VideoIds, l \in Langs : \E d \in Folders :
          CallProcessSubtitles(v, l, d)
    \/ \E v \in VideoIds : ProcessStart(v)
    \/ \E v \in VideoIds : ClearSubtitles(v)
    \/ \E v \in VideoIds : InsertSubtitles(v)
    \/ \E v \in VideoIds : InsertLanguage(v)
    \/ \E v \in VideoIds : AddVideoInfo(v)
    \/ \E v \in VideoIds : AddChannelInfo(v)

SpecReindex == Init /\ [][NextReindex]_vars

(***************************************************************************)
(* The store as the functions of db.py can leave it: the commits of write  *)
(* units called one after the other, with channel removals and             *)
(* db.delete_video (a function no command of main.py calls) run between    *)
(* any two commits.  search and the view are applied to these stores.      *)
(***************************************************************************)
\* db.delete_video(video_id) completes.  (Without a videos row of v the call
\* raises NotFoundError and leaves the store as it is: a stuttering step.)
DeleteVideo(v) ==
    /\ removes < MaxRemoves
    /\ \E r \in videos : r.video_id = v
    /\ removes' = removes + 1
    /\ channels' = delete_video(DB, v).channels
    /\ videos' = delete_video(DB, v).videos
    /\ subtitles' = delete_video(DB, v).subtitles
    /\ video_languages' = delete_video(DB, v).video_languages
    /\ UNCHANGED <<command, tasks, asked, runs>>

\* The folders that hold the caption track of v or none, with any info.json.
OwnFolders(v) == {d \in Folders : d.cues \in {<<>>, TrackOf(v)}}

\* A call of process_subtitles on a folder of v, at most MaxUnits of them.
CallUnit(v, l, d) ==
    /\ runs < MaxUnits
    /\ CallProcessSubtitles(v, l, d)

NextSearch ==
    \/ \E v \in VideoIds, l \in Langs : \E d \in OwnFolders(v) : CallUnit(v, l, d)
    \/ \E v \in VideoIds : ProcessStart(v)
    \/ \E v \in VideoIds : ClearSubtitles(v)
    \/ \E v \in VideoIds : InsertSubtitles(v)
    \/ \E v \in VideoIds : InsertLanguage(v)
    \/ \E v \in VideoIds : AddVideoInfo(v)
    \/ \E v \in VideoIds : AddChannelInfo(v)
    \/ \E u \in Uploaders : RemoveChannel(u)
    \/ \E v \in VideoIds : DeleteVideo(v)

SpecSearch == Init /\ [][NextSearch]_vars

(***************************************************************************)
(* Vocabulary of the properties                                            *)
(***************************************************************************)
HasRow(L, v, l) == \E r \in L : r.video_id = v /\ r.lang = l

HasAbsentRow(L, v) == \E r \in L : r.video_id = v /\ r.available = FALSE

SegRows(S, v, l) == {s \in S : s.video_id = v /\ s.lang = l}

\* A subtitles row without its surrogate key.
Strip(s) ==
    [video_id |-> s.video_id, lang |-> s.lang,
     start_seconds |-> s.start_seconds, end_seconds |-> s.end_seconds,
     start_time |-> s.start_time, end_time |-> s.end_time, text |-> s.text]

\* rows are exactly items, one row per item, in the order of items.
IsExactly(rows, items) ==
    /\ Cardinality(rows) = Len(items)
    /\ \E k \in 0..MaxRowid(rows) :
          \A i \in 1..Len(items) :
             \E r \in rows : r.subtitle_id = k + i /\ Strip(r) = items[i]

\* The (start_seconds, end_seconds, text) of rows, with multiplicity.
Triple(s) == <<s.start_seconds, s.end_seconds, s.text>>
Count(rows, t) == Cardinality({s \in rows : Triple(s) = t})
SameMultiset(rows1, rows2) ==
    \A t \in {Triple(s) : s \in rows1 \cup rows2} :
       Count(rows1, t) = Count(rows2, t)

\* The rows of the store a write unit for (v, l) writes.
UnitRows(db, v, l) ==
    [subtitles |-> SegRows(db.subtitles, v, l),
     video_languages |->
        {r \in db.video_languages : r.video_id = v /\ r.lang = l},
     videos |-> {r \in db.videos : r.video_id = v},
     channels |-> {c \in db.channels : c.uploader_id = UploaderOf(v)}]

\* The store a complete write unit of task v makes of the store unitPre.
UnitPost(v) ==
    LET c == clear_subtitles(unitPre, v, lang)
    IN  [subtitles |->
            insert_all(c.subtitles, Normalize(v, lang, tmpdir[v].cues)),
         video_languages |->
            add_video_language(c.video_languages, v, lang, TRUE),
         videos |-> add_video_info(unitPre.videos, Info(v)),
         channels |-> add_channel_info(unitPre.channels, Info(v))]

\* The videos of uploader u in table V.
VideosOf(V, u) == {r.video_id : r \in {x \in V : x.uploader_id = u}}

(***************************************************************************)
(* C1.  After delete_channel(u) completes the store holds no channel row   *)
(* of u, no video of u, and no segment and no language row of a video      *)
(* that belonged to u.  Stated of every step that removes the channel row  *)
(* of u.  The code leaves the segments and the language rows behind.       *)
(***************************************************************************)
C1_CascadeDelete ==
    [][\A u \in Uploaders :
          ( /\ removes' = removes + 1
            /\ \E c \in channels : c.uploader_id = u
            /\ ~ \E c \in channels' : c.uploader_id = u )
          => /\ VideosOf(videos', u) = {}
             /\ \A s \in subtitles' : s.video_id \notin VideosOf(videos, u)
             /\ \A r \in video_languages' :
                   r.video_id \notin VideosOf(videos, u)]_vars

\* The step in which the call of process_subtitles for v raises.
UnitRaises(v) ==
    /\ InProcess(v)
    /\ \/ pc'[v] = "raising"
       \/ pc'[v] = "finished" /\ result'[v] = "error"

\* The step in which the write unit of v ends, returning or raising.
UnitEnds(v) ==
    InUnit(v) /\ pc'[v] \in {"returning", "raising", "finished"}

(***************************************************************************)
(* C2.  A write unit that fails leaves the rows it writes as they were     *)
(* when it began.  Stated of every step in which a task inside             *)
(* process_subtitles raises.  The code has committed clear_subtitles and   *)
(* add_subtitles by the time add_video_info or add_channel_info raises.    *)
(***************************************************************************)
C2_UnitAllOrNothing ==
    [][\A v \in VideoIds :
          UnitRaises(v)
          => UnitRows(DB', v, lang) = UnitRows(unitPre, v, lang)]_vars

(***************************************************************************)
(* C3.  A reader never observes a half-completed write.  Readers (search,  *)
(* the listings) are other connections to the database file and see its    *)
(* committed contents at any moment, so the claim is that in every state   *)
(* with a write unit in progress the rows of the unit are either all as    *)
(* before the unit or all as after it.  The code commits the unit in five  *)
(* separate transactions.                                                  *)
(***************************************************************************)
C3_NoHalfWrite ==
    \A v \in VideoIds :
       (pc[v] = "process" \/ InUnit(v))
       => \/ UnitRows(DB, v, lang) = UnitRows(unitPre, v, lang)
          \/ UnitRows(DB, v, lang) = UnitRows(UnitPost(v), v, lang)

(***************************************************************************)
(* C4.  Every mutation of the store is made by the one operation that      *)
(* holds the process-wide lock: a step that changes the store is a step    *)
(* of the task holding the lock.  remove_channel calls delete_channel      *)
(* without taking the lock, also while a write unit is in flight.          *)
(***************************************************************************)
C4_SingleWriterUnderLock ==
    [][store' # store => (lock # Free /\ pc'[lock] # pc[lock])]_vars

(***************************************************************************)
(* C5.  When an index run has finished, every planned video whose track    *)
(* and metadata were fetched has as its segments of the run's language     *)
(* exactly the normalized cues of its own track: one row per kept cue, in  *)
(* cue order, none lost, duplicated or filed under another video.          *)
(***************************************************************************)
C5_ConcurrentIngestion ==
    runState = "done"
    => \A v \in new_ids :
          (tmpdir[v].vtt = "ok" /\ tmpdir[v].info # "unparsable")
          => IsExactly(SegRows(subtitles, v, lang),
                       Normalize(v, lang, tmpdir[v].cues))

\* Two videos were fetched and written in one run of two worker threads.
C5_Witness ==
    /\ runState = "done"
    /\ new_ids = VideoIds
    /\ \A v \in VideoIds :
          /\ tmpdir[v].vtt = "ok"
          /\ tmpdir[v].info = "ok"
          /\ SegRows(subtitles, v, lang) # {}
    /\ \E s \in SegRows(subtitles, "v1", lang) :
          \A t \in SegRows(subtitles, "v2", lang) : t.subtitle_id < s.subtitle_id

(***************************************************************************)
(* C6.  Negative cache: once a fetch for (v, l) has reported that no track *)
(* exists, the planner of every later index run for l excludes v, and the  *)
(* media source is never asked for (v, l) again.                           *)
(***************************************************************************)
C6_NegativeCache ==
    [][ /\ (runState # "running" /\ runState' = "running")
           => \A v \in new_ids' : <<v, lang'>> \notin absentReported
        /\ \A v \in VideoIds :
              (pc[v] = "pending" /\ pc'[v] = "download")
              => <<v, lang>> \notin absentReported ]_vars

\* A second run lists a video reported absent for the run's language, and
\* the planner has left it out.
C6_Witness ==
    /\ runs = 2
    /\ runState = "running"
    /\ \E v \in video_ids :
          /\ <<v, lang>> \in absentReported
          /\ v \notin new_ids
          /\ pc[v] = "idle"
    /\ new_ids # {}

(***************************************************************************)
(* C7.  filter_existing_video_ids returns a subset of the candidates, and  *)
(* a candidate is excluded iff video_languages has a row for it in the     *)
(* requested language or a row with available = false in any language.    *)
(* With the single row (v1, es, true), filtering {v1, v2} for es gives     *)
(* {v2}.  Stated of the planner applied to every reachable store, and of   *)
(* what the index command planned.                                         *)
(***************************************************************************)
C7_PlannerExclusion ==
    /\ \A ids \in SUBSET VideoIds, l \in Langs :
          LET kept == filter_existing_video_ids(video_languages, ids, l)
          IN  /\ kept \subseteq ids
              /\ \A v \in ids :
                    v \notin kept
                    <=> \/ HasRow(video_languages, v, l)
                        \/ HasAbsentRow(video_languages, v)
    /\ video_languages = {[video_id |-> "v1", lang |-> "es", available |-> TRUE]}
       => filter_existing_video_ids(video_languages, {"v1", "v2"}, "es") = {"v2"}
    /\ (runState = "running" /\ \A v \in VideoIds : pc[v] \in {"idle", "pending"})
       => \A v \in video_ids :
             v \notin new_ids
             <=> \/ HasRow(video_languages, v, lang)
                 \/ HasAbsentRow(video_languages, v)

\* The second run lists v1 and v2 for es with the single row (v1, es, true)
\* in the store, and plans v2 alone.
C7_Witness ==
    /\ video_languages = {[video_id |-> "v1", lang |-> "es", available |-> TRUE]}
    /\ runs = 2
    /\ runState = "running"
    /\ video_ids = {"v1", "v2"}
    /\ lang = "es"
    /\ new_ids = {"v2"}

\* A candidate is excluded for a language it has no row in, by its
\* unavailable row in another language.
C7_WitnessOtherLang ==
    /\ runState = "running"
    /\ \E v \in video_ids :
          /\ v \notin new_ids
          /\ ~HasRow(video_languages, v, lang)
          /\ HasAbsentRow(video_languages, v)

(***************************************************************************)
(* C8, as claimed.  A video_languages row for (v, l) exists iff a fetch of *)
(* that track has been attempted, failed attempts included: a row exists   *)
(* only for a pair the media source was asked for, and every pair whose    *)
(* latest attempt has ended, however it ended, has a row.  An attempt      *)
(* still running binds neither way.                                        *)
(***************************************************************************)
Pairs == VideoIds \X Langs

C8_RowIffAttempted ==
    \A p \in Pairs :
       /\ HasRow(video_languages, p[1], p[2]) => p \in attempted
       /\ attempt[p] \in {"raised_before_store", "reached_store"}
          => HasRow(video_languages, p[1], p[2])

(***************************************************************************)
(* C8, amended.  A row for (v, l) exists only if a fetch of that track has *)
(* been attempted; a pair whose latest attempt returned, or raised in a    *)
(* store call of its write unit, has a row; and a pair whose latest        *)
(* attempt raised in the fetch or in the reading of the downloaded files,  *)
(* before the first store call, has none.  This holds in every run and     *)
(* after remove-channel, which removes no video_languages row.             *)
(***************************************************************************)
C8_RowIffPastReading ==
    \A p \in Pairs :
       /\ HasRow(video_languages, p[1], p[2]) => p \in attempted
       /\ attempt[p] = "reached_store"
          => HasRow(video_languages, p[1], p[2])
       /\ attempt[p] = "raised_before_store"
          => ~HasRow(video_languages, p[1], p[2])

\* Over two runs one attempt returned with its track, one (of the current
\* run) raised in a store call after the language row was written and one
\* raised before the first store call: the first two pairs have a row, the
\* third has none, and the channel of the first video has been removed
\* since.
C8_Witness ==
    /\ runState = "done"
    /\ runs = 2
    /\ removes = 1
    /\ \E p, q, r \in Pairs :
          /\ attempt[p] = "reached_store"
          /\ [video_id |-> p[1], lang |-> p[2], available |-> TRUE]
                \in video_languages
          /\ ~\E x \in videos : x.video_id = p[1]
          /\ attempt[q] = "reached_store"
          /\ q[2] = lang
          /\ result[q[1]] = "error"
          /\ HasRow(video_languages, q[1], q[2])
          /\ attempt[r] = "raised_before_store"
          /\ ~HasRow(video_languages, r[1], r[2])

(***************************************************************************)
(* C9.  Re-indexing is idempotent: when the write unit for (v, l) ends on  *)
(* a store that held, for that pair, the result of an earlier run on the   *)
(* same cues, the pair has the same multiset of (start_seconds,            *)
(* end_seconds, text) as before, and the segments of every other pair are  *)
(* the rows they were.                                                     *)
(***************************************************************************)
FirstRunSame(v) ==
    /\ tmpdir[v].vtt = "ok"
    /\ [video_id |-> v, lang |-> lang, available |-> TRUE]
          \in unitPre.video_languages
    /\ IsExactly(SegRows(unitPre.subtitles, v, lang),
                 Normalize(v, lang, tmpdir[v].cues))

OtherRows(S, v, l) == {s \in S : ~(s.video_id = v /\ s.lang = l)}

C9_ReindexIdempotent ==
    [][\A v \in VideoIds :
          (UnitEnds(v) /\ FirstRunSame(v))
          => /\ SameMultiset(SegRows(subtitles', v, lang),
                             SegRows(unitPre.subtitles, v, lang))
             /\ Cardinality(SegRows(subtitles', v, lang))
                   = Len(Normalize(v, lang, tmpdir[v].cues))
             /\ OtherRows(subtitles', v, lang)
                   = OtherRows(unitPre.subtitles, v, lang)]_vars

\* The unit runs a second time on the cues of the first run, has replaced
\* the segments, and the store holds segments of another pair too.
C9_Witness ==
    /\ runState = "direct"
    /\ \E v \in VideoIds :
          /\ pc[v] = "add_channel_info"
          /\ FirstRunSame(v)
          /\ Cardinality(SegRows(subtitles, v, lang)) >= 2
          /\ OtherRows(subtitles, v, lang) # {}

(***************************************************************************)
(* C10.  Per-item failure isolation: a task that raises does not stop the  *)
(* run.  A run that no interrupt aborted ends only after the task of every *)
(* planned id has run to its end and its result has been collected.        *)
(***************************************************************************)
C10_FailureIsolation ==
    runState = "done"
    => \A v \in new_ids :
          pc[v] = "collected" /\ result[v] \in {"ok", "error"}

\* A finished run in which one task raised and another wrote its segments.
C10_Witness ==
    /\ runState = "done"
    /\ \E v, w \in new_ids :
          /\ result[v] = "error"
          /\ result[w] = "ok"
          /\ SegRows(subtitles, w, lang) # {}

(***************************************************************************)
(* C11.  Cancellation.  After a user interrupt during an index run no      *)
(* fetch task that had not started is started; the run exits only when no  *)
(* task is running; and every write unit that ends after the interrupt     *)
(* has applied all of its writes or none of them, so that no pair is left  *)
(* with its segments deleted but not re-inserted.  The code cancels the    *)
(* queued tasks only at executor.shutdown, after the interrupt has been    *)
(* caught, so a worker thread still starts a queued task in between; and   *)
(* a unit that raises in add_video_info or add_channel_info has committed  *)
(* its first writes.                                                       *)
(***************************************************************************)
\* The interrupt has been caught and the command has not exited yet.
Interrupted == runState \in {"interrupted", "aborting"}

C11_Cancellation ==
    [][ /\ \A v \in VideoIds :
              (Interrupted /\ runState' # "running")
              => ~(pc[v] \in {"pending", "cancelled"} /\ pc'[v] = "download")
        /\ (Interrupted /\ runState' = "exited")
           => \A v \in VideoIds : pc[v] \in {"idle", "cancelled", "finished", "collected"}
        /\ \A v \in VideoIds :
              (Interrupted /\ UnitEnds(v))
              => \/ UnitRows(DB', v, lang) = UnitRows(unitPre, v, lang)
                 \/ UnitRows(DB', v, lang) = UnitRows(UnitPost(v), v, lang) ]_vars

(***************************************************************************)
(* C12.  Immediately after delete_channel(u) completes, search(text), for  *)
(* any text and with or without the uploader and lang filters, returns no  *)
(* row of a video that was owned by u.  Stated of every step that removes  *)
(* the channel row of u; the view and each result are evaluated once per  *)
(* step, as the value of a bound variable.                                 *)
(***************************************************************************)
C12_SearchAfterDelete ==
    [][\A u \in Uploaders :
          ( /\ removes' = removes + 1
            /\ \E c \in channels : c.uploader_id = u
            /\ ~ \E c \in channels' : c.uploader_id = u )
          => \A view \in {subtitles_with_videos(DB')} :
                \A text \in SearchTexts, w \in Uploaders \cup {None},
                   l \in Langs \cup {None} :
                   \A res \in {rows_where(view, DB', text, w, l)} :
                      \A i \in 1..Len(res) :
                         res[i].video_id \notin VideosOf(videos, u)]_vars

\* v1 of @a was indexed in full, @a has been removed, segments of v1 that
\* match "hello" are still in the table, and the search finds only v2.
C12_Witness ==
    /\ removes = 1
    /\ tmpdir["v1"].info = "ok" /\ result["v1"] = "ok" /\ pc["v1"] = "collected"
    /\ ~ \E c \in channels : c.uploader_id = "@a"
    /\ ~ \E r \in videos : r.video_id = "v1"
    /\ \E x \in subtitles : x.video_id = "v1" /\ "hello" \in Tokens(x.text)
    /\ Len(search(DB, "hello", None, None)) = 1
    /\ search(DB, "hello", None, None)[1].video_id = "v2"

(***************************************************************************)
(* C13.  search returns one row per matching Segment of the query view     *)
(* (restricted to uploader_id and/or lang when given), ordered ascending   *)
(* by video_id and, within one video_id, ascending by start_seconds; with  *)
(* no match it returns the empty sequence.                                 *)
(***************************************************************************)
\* The segments a search is to return: joined to their video and channel,
\* matching the text, of the uploader and the language asked for.
Matching(text, w, l) ==
    {x \in subtitles :
        /\ text \in Tokens(x.text)
        /\ l # None => x.lang = l
        /\ \E r \in videos :
              /\ r.video_id = x.video_id
              /\ \E c \in channels : c.uploader_id = r.uploader_id
              /\ w # None => r.uploader_id = w}

C13_SearchOrdered ==
    \A text \in SearchTexts, w \in Uploaders \cup {None}, l \in Langs \cup {None} :
       LET res == search(DB, text, w, l)
       IN  /\ Len(res) = Cardinality(Matching(text, w, l))
           /\ \A x \in Matching(text, w, l) :
                 \E i \in 1..Len(res) :
                    /\ res[i].subtitle_id = x.subtitle_id
                    /\ res[i].text = x.text
                    /\ res[i].start_seconds = x.start_seconds
           /\ \A i, j \in 1..Len(res) :
                 i < j
                 => \/ VideoRank[res[i].video_id] < VideoRank[res[j].video_id]
                    \/ /\ res[i].video_id = res[j].video_id
                       /\ res[i].start_seconds <= res[j].start_seconds
           /\ Matching(text, w, l) = {} => res = <<>>

\* "hello" matches v2 at second 5 and v1 at seconds 12 and 31: the result is
\* v1@12, v1@31, v2@5; restricted to @b it is v2@5 alone.
C13_Witness ==
    LET res == search(DB, "hello", None, "es")
    IN  /\ Len(res) = 3
        /\ <<res[1].video_id, res[1].start_seconds>> = <<"v1", 12>>
        /\ <<res[2].video_id, res[2].start_seconds>> = <<"v1", 31>>
        /\ <<res[3].video_id, res[3].start_seconds>> = <<"v2", 5>>
        /\ Len(search(DB, "hello", "@b", None)) = 1
        /\ search(DB, "nothing", None, None) = <<>>

(***************************************************************************)
(* C14.  For every Segment exposed by the query view the link is the       *)
(* owning video's URL followed by "&start=", start_seconds - 4, "&end="    *)
(* and end_seconds + 2, whatever spacing_secs download_part is given;      *)
(* start 100, end 110 on https://x/v gives https://x/v&start=96&end=112.   *)
(***************************************************************************)
\* The integer a decimal text denotes.
RECURSIVE DecimalValue(_)
DecimalValue(t) ==
    IF t = <<>> THEN 0
    ELSE IF Head(t) = "-" THEN 0 - DecimalValue(Tail(t))
    ELSE LET last == t[Len(t)]
             d == CHOOSE n \in 0..9 :
                     <<"0", "1", "2", "3", "4", "5", "6", "7", "8", "9">>[n + 1] = last
         IN  10 * DecimalValue(SubSeq(t, 1, Len(t) - 1)) + d

\* t is url, "&start=", the decimal of from, "&end=", the decimal of to.
IsLink(t, url, from, to) ==
    /\ Len(t) > Len(url) + 2
    /\ SubSeq(t, 1, Len(url)) = url
    /\ t[Len(url) + 1] = "&start="
    /\ \E k \in (Len(url) + 3)..(Len(t) - 1) :
          /\ t[k] = "&end="
          /\ DecimalValue(SubSeq(t, Len(url) + 2, k - 1)) = from
          /\ DecimalValue(SubSeq(t, k + 1, Len(t))) = to

C14_LinkPadding ==
    /\ \A r \in subtitles_with_videos(DB) :
          \E v \in videos :
             /\ v.video_id = r.video_id
             /\ IsLink(r.link, v.video_url, r.start_seconds - 4, r.end_seconds + 2)
             /\ \A sp \in SpacingSecs :
                   download_ranges(r, sp)
                      = <<r.start_seconds - sp, r.end_seconds + sp>>
    /\ link(<<"https://x/v">>, 100, 110)
          = <<"https://x/v", "&start=", "9", "6", "&end=", "1", "1", "2">>

\* The view holds a segment that starts at second 2: its link starts at -2
\* while download_part with spacing 5 asks for the range from -3.
C14_Witness ==
    \E r \in subtitles_with_videos(DB) :
       /\ r.start_seconds = 2
       /\ r.link = <<"https://x/", r.video_id, "&start=", "-", "2", "&end=", "7">>
       /\ download_ranges(r, 5) = <<-3, 10>>

(***************************************************************************)
(* C15.  The caption normalizer equals its reference transform for every   *)
(* cue list: a cue yields a Segment iff end - start >= 0.5 (a duration of  *)
(* exactly 0.5 is kept), Segments keep cue order, start_seconds is         *)
(* floor(start), end_seconds is ceil(end), text is the cue text up to the  *)
(* first line break; the cue (12.2, 14.6) gives 12 and 15.  The reference  *)
(* is computed on the timestamps as written, in milliseconds.  The code    *)
(* subtracts two floats: the cue 00:00:01.800 --> 00:00:02.300 has the     *)
(* difference 0.4999999999999998 and is dropped.                           *)
(***************************************************************************)
ReferenceTransform(v, l, cues) ==
    LET kept == SelectSeq(cues, LAMBDA c : c.end - c.start >= 500)
    IN  [i \in 1..Len(kept) |->
            [video_id |-> v, lang |-> l,
             start_seconds |-> kept[i].start \div 1000,
             end_seconds |-> (kept[i].end + 999) \div 1000,
             start_time |-> kept[i].start, end_time |-> kept[i].end,
             text |-> Head(kept[i].text)]]

C15_NormalizerReference ==
    \A v \in VideoIds :
       tmpdir[v].vtt = "ok"
       => Normalize(v, lang, tmpdir[v].cues)
             = ReferenceTransform(v, lang, tmpdir[v].cues)

(***************************************************************************)
(* C16.  Referential integrity after completed operations: once every      *)
(* started index run and remove-channel has finished, every Segment and    *)
(* every VideoLanguage row names an existing Video, and every Video names  *)
(* an existing Channel.  The foreign keys are declared but not enforced;   *)
(* delete_channel leaves segments and language rows of deleted videos, a   *)
(* unit that raises leaves rows without their video or channel, and the    *)
(* row of an absent track is written without a video row.                  *)
(***************************************************************************)
C16_ReferentialIntegrity ==
    (runState \in {"idle", "done", "exited"})
    => /\ \A x \in subtitles : \E r \in videos : r.video_id = x.video_id
       /\ \A x \in video_languages : \E r \in videos : r.video_id = x.video_id
       /\ \A r \in videos : \E c \in channels : c.uploader_id = r.uploader_id

(***************************************************************************)
(* C17.  After delete_channel(u) completes, filter_existing_video_ids no   *)
(* longer excludes any video that belonged to u, for any language, so a    *)
(* later index run fetches it again.  Stated of every step that removes    *)
(* the channel row of u.  The language rows of the videos survive the      *)
(* delete and keep excluding them.                                         *)
(***************************************************************************)
C17_RefetchAfterDelete ==
    [][\A u \in Uploaders :
          ( /\ removes' = removes + 1
            /\ \E c \in channels : c.uploader_id = u
            /\ ~ \E c \in channels' : c.uploader_id = u )
          => \A l \in Langs :
                filter_existing_video_ids(video_languages',
                                          VideosOf(videos, u), l)
                   = VideosOf(videos, u)]_vars

(***************************************************************************)
(* C19.  With index runs executed one at a time, in every reachable state  *)
(* a (video_id, lang) pair whose VideoLanguage row has available = false   *)
(* has no Segment in the store.                                            *)
(***************************************************************************)
C19_AbsentHasNoSegments ==
    \A r \in video_languages :
       r.available = FALSE => SegRows(subtitles, r.video_id, r.lang) = {}

\* A video has segments in one language and, after a second run, the row of
\* an absent track in the other.
C19_Witness ==
    /\ runs = 2
    /\ \E v \in VideoIds, l, k \in Langs :
          /\ l # k
          /\ [video_id |-> v, lang |-> l, available |-> FALSE] \in video_languages
          /\ <<v, l>> \in absentReported
          /\ SegRows(subtitles, v, k) # {}
          /\ [video_id |-> v, lang |-> k, available |-> TRUE] \in video_languages

(***************************************************************************)
(* C20.  Every Segment ever stored has end_seconds >= start_seconds + 1:   *)
(* only cues that pass the duration test are kept, start is floored and    *)
(* end is ceiled.                                                          *)
(***************************************************************************)
C20_PositiveLength ==
    \A x \in subtitles : x.end_seconds >= x.start_seconds + 1

\* The cue from 31.0 to 31.5 is stored as the segment from 31 to 32, and the
\* track of v2, which has a cue of length zero, has been stored too.
C20_Witness ==
    /\ \E x \in subtitles : x.start_seconds = 31 /\ x.end_seconds = 32
    /\ \E v \in VideoIds :
          /\ pc[v] \in {"finished", "collected"}
          /\ \E i \in 1..Len(tmpdir[v].cues) :
                tmpdir[v].cues[i].end = tmpdir[v].cues[i].start
          /\ SegRows(subtitles, v, lang) # {}

(***************************************************************************)
(* C18.  Absent a user interrupt, and with every media-source call         *)
(* returning or raising, an index run terminates with the task of every    *)
(* planned id finished and collected and the write lock free: a write      *)
(* unit that raises releases the lock, so no worker waits for it forever.  *)
(***************************************************************************)
C18_RunTerminates ==
    (runState = "running")
    ~> ( /\ runState = "done"
         /\ lock = Free
         /\ \A v \in new_ids : pc[v] = "collected" )

\* A run has ended in which the unit of one task raised after inserting its
\* segments and the other task took the lock after it and wrote its own.
C18_Witness ==
    /\ runState = "done"
    /\ lock = Free
    /\ \E v, w \in new_ids :
          /\ result[v] = "error"
          /\ tmpdir[v].info = "no_title"
          /\ result[w] = "ok"
          /\ SegRows(subtitles, v, lang) # {}
          /\ SegRows(subtitles, w, lang) # {}
          /\ \A x \in SegRows(subtitles, v, lang), y \in SegRows(subtitles, w, lang) :
                x.subtitle_id < y.subtitle_id

====
